---- MODULE Spec2Model ----
(***************************************************************************)
(* The cart page of the photo kiosk (src/src/pages/Cart.tsx): line-item    *)
(* pricing, the order summary, the order number and the place-order        *)
(* handler, together with the cart store and the browser storage they use. *)
(*                                                                         *)
(* JavaScript numbers are IEEE-754 binary64 values.  A non-negative double *)
(* x is held as the natural number x * 2^FracBits, written little-endian   *)
(* in limbs of LimbBits bits, so that every sum, product and rounding is   *)
(* computed exactly as the hardware computes it (round to nearest, ties to *)
(* even, on a 53-bit significand).                                         *)
(***************************************************************************)
EXTENDS Integers, Sequences, FiniteSets, TLC

\* ------------------------------------------------------------------------
\* Natural numbers of arbitrary size (little-endian limbs, no leading zero)
\* ------------------------------------------------------------------------

LimbBits == 15

Base == 2 ^ LimbBits

\* Limbs below the binary point: doubles are multiples of 2^-FracBits.
FracLimbs == 6

FracBits == FracLimbs * LimbBits

\* Significand width of a binary64 value.
MantissaBits == 53

Zeros(n) == [j \in 1..n |-> 0]

\* a without its leading zero limbs.
Norm(a) ==
  IF \A j \in 1..Len(a) : a[j] = 0 THEN <<>>
  ELSE SubSeq(a, 1, CHOOSE n \in 1..Len(a) :
                      a[n] # 0 /\ \A j \in (n + 1)..Len(a) : a[j] = 0)

Limb(a, j) == IF j >= 1 /\ j <= Len(a) THEN a[j] ELSE 0

\* a + b.  The carry into limb j is 1 iff a lower limb pair overflows and
\* every pair between passes a carry on.
BAdd(a, b) ==
  LET n == (IF Len(a) > Len(b) THEN Len(a) ELSE Len(b)) + 1
      s == [j \in 1..n |-> Limb(a, j) + Limb(b, j)]
      carry(j) == \E i \in 1..(j - 1) :
                    s[i] >= Base /\ \A k \in (i + 1)..(j - 1) : s[k] >= Base - 1
  IN  Norm([j \in 1..n |-> (s[j] + (IF carry(j) THEN 1 ELSE 0)) % Base])

\* a * k for a single limb k: the low and the high halves of the limb
\* products, added one limb apart.
BMulSmall(a, k) ==
  BAdd([j \in 1..Len(a) |-> (a[j] * k) % Base],
       <<0>> \o [j \in 1..Len(a) |-> (a[j] * k) \div Base])

\* The sum of p[lo], ..., p[hi], halving the range.
RECURSIVE SumRange(_, _, _)
SumRange(p, lo, hi) ==
  IF lo = hi THEN p[lo]
  ELSE BAdd(SumRange(p, lo, (lo + hi) \div 2),
            SumRange(p, (lo + hi) \div 2 + 1, hi))

\* The number of zero limbs at the low end of a non-zero a.
LowZeros(a) == CHOOSE n \in 0..(Len(a) - 1) : a[n + 1] # 0 /\ \A j \in 1..n : a[j] = 0

\* a * b: the sum of the partial products a * b[j] * Base^(j-1), taken
\* without the zero limbs at the low ends of a and b.
BMul(a, b) ==
  IF a = <<>> \/ b = <<>> THEN <<>>
  ELSE LET x == SubSeq(a, LowZeros(a) + 1, Len(a))
           y == SubSeq(b, LowZeros(b) + 1, Len(b))
       IN  Zeros(LowZeros(a) + LowZeros(b))
             \o SumRange([j \in 1..Len(y) |-> Zeros(j - 1) \o BMulSmall(x, y[j])],
                         1, Len(y))

\* Short division by a single limb d: [q |-> a \div d, r |-> a % d].
RECURSIVE DivSmall(_, _)
DivSmall(a, d) ==
  IF a = <<>> THEN [q |-> <<>>, r |-> 0]
  ELSE LET hi  == DivSmall(Tail(a), d)
           cur == hi.r * Base + Head(a)
       IN  [q |-> <<cur \div d>> \o hi.q, r |-> cur % d]

SmallBitLen(x) == CHOOSE n \in 0..LimbBits : x < 2 ^ n /\ (n = 0 \/ x >= 2 ^ (n - 1))

BitLen(a) ==
  IF a = <<>> THEN 0 ELSE LimbBits * (Len(a) - 1) + SmallBitLen(a[Len(a)])

Pow2(s) ==
  [j \in 1..(s \div LimbBits + 1) |->
     IF j = s \div LimbBits + 1 THEN 2 ^ (s % LimbBits) ELSE 0]

\* Bit i (from 0) of a.
Bit(a, i) ==
  IF i \div LimbBits + 1 > Len(a) THEN 0
  ELSE (a[i \div LimbBits + 1] \div (2 ^ (i % LimbBits))) % 2

\* TRUE iff the bits of a below bit i are all zero.
LowZero(a, i) ==
  /\ \A j \in 1..(i \div LimbBits) : j <= Len(a) => a[j] = 0
  /\ (i \div LimbBits + 1 <= Len(a)
        => a[i \div LimbBits + 1] % (2 ^ (i % LimbBits)) = 0)

\* a with its bits below bit s cleared.
ClearLow(a, s) ==
  [j \in 1..Len(a) |->
     IF j <= s \div LimbBits THEN 0
     ELSE IF j = s \div LimbBits + 1
          THEN a[j] - (a[j] % (2 ^ (s % LimbBits)))
          ELSE a[j]]

DropLimbs(a, n) == IF Len(a) <= n THEN <<>> ELSE SubSeq(a, n + 1, Len(a))

\* The value of a natural below Base^2 as an integer.
BToInt(a) ==
  IF a = <<>> THEN 0
  ELSE IF Len(a) = 1 THEN a[1]
  ELSE a[1] + Base * a[2]

BFromInt(n) == Norm(<<n % Base, (n \div Base) % Base, n \div (Base * Base)>>)

\* ------------------------------------------------------------------------
\* binary64 arithmetic
\* ------------------------------------------------------------------------

\* Round to a 53-bit significand, to nearest, ties to even.  sticky says
\* that the exact value lies strictly above a (a discarded remainder).
Round53(a, sticky) ==
  LET L == BitLen(a)
      s == L - MantissaBits
  IN  IF s <= 0 THEN a
      ELSE LET up == /\ Bit(a, s - 1) = 1
                     /\ \/ ~LowZero(a, s - 1)
                        \/ sticky
                        \/ Bit(a, s) = 1
               t  == ClearLow(a, s)
           IN  IF up THEN BAdd(t, Pow2(s)) ELSE t

Zero == <<>>

\* x + y
FAdd(x, y) ==
  IF x = Zero THEN y
  ELSE IF y = Zero THEN x
  ELSE Round53(BAdd(x, y), FALSE)

\* x * y
FMul(x, y) ==
  IF x = Zero \/ y = Zero THEN Zero
  ELSE DropLimbs(Round53(BMul(x, y), FALSE), FracLimbs)

\* The double of an integer n (exact below 2^53).
FromInt(n) == IF n = 0 THEN Zero ELSE Zeros(FracLimbs) \o BFromInt(n)

\* The double nearest to the decimal n/den (den a power of ten below Base):
\* what a numeric literal, or unary + applied to a decimal string, gives.
FromDecimal(n, den) ==
  IF n = 0 THEN Zero
  ELSE LET d == DivSmall(Zeros(FracLimbs) \o BFromInt(n), den)
       IN  Round53(Norm(d.q), d.r # 0)

\* The double of the two-decimal amount c/100 (5.99 is FromCents(599)).
FromCents(c) == FromDecimal(c, 100)

\* Number.prototype.toFixed(2): the integer n for which n/100 - x is as
\* close to zero as possible, the larger n on a tie; the result is the
\* decimal string of n/100, held as n (hundredths).
ToFixed2(x) ==
  IF x = Zero THEN 0
  ELSE BToInt(DropLimbs(BAdd(BMulSmall(x, 100), Pow2(FracBits - 1)), FracLimbs))

\* Math.floor(x)
Floor(x) == IF x = Zero THEN 0 ELSE BToInt(DropLimbs(x, FracLimbs))

\* ------------------------------------------------------------------------
\* Strings, arrays and JSON
\* ------------------------------------------------------------------------

\* A string is the sequence of its characters.
DQ == "\""

\* String.prototype.split(sep) for a one-character separator: the scan
\* closes a segment at every separator and the last one at the end.
RECURSIVE SplitScan(_, _, _, _)
SplitScan(s, sep, cur, out) ==
  IF s = <<>> THEN Append(out, cur)
  ELSE IF Head(s) = sep THEN SplitScan(Tail(s), sep, <<>>, Append(out, cur))
  ELSE SplitScan(Tail(s), sep, Append(cur, Head(s)), out)

Split(s, sep) == SplitScan(s, sep, <<>>, <<>>)

\* Array.from(new Set(arr)): the first occurrence of every value, in order.
RECURSIVE Dedup(_)
Dedup(arr) ==
  IF arr = <<>> THEN <<>>
  ELSE LET init == Dedup(SubSeq(arr, 1, Len(arr) - 1))
           x    == arr[Len(arr)]
       IN  IF \E i \in 1..Len(init) : init[i] = x THEN init ELSE Append(init, x)

RECURSIVE JoinQuoted(_)
JoinQuoted(arr) ==
  IF arr = <<>> THEN <<>>
  ELSE <<DQ>> \o Head(arr) \o <<DQ>>
       \o (IF Len(arr) > 1 THEN <<",">> ELSE <<>>) \o JoinQuoted(Tail(arr))

\* JSON.stringify of an array of strings (no character needing an escape).
Stringify(arr) == <<"[">> \o JoinQuoted(arr) \o <<"]">>

\* JSON.parse of an array of strings, scanned left to right.  mode is what
\* the scanner expects next; a text that is no such array does not parse.
RECURSIVE ParseScan(_, _, _, _)
ParseScan(t, mode, cur, out) ==
  IF t = <<>> THEN [ok |-> mode = "end", value |-> out]
  ELSE LET c == Head(t) r == Tail(t)
       IN  CASE mode = "open" ->
                  IF c = "[" THEN ParseScan(r, "first", cur, out)
                  ELSE [ok |-> FALSE, value |-> <<>>]
             [] mode = "first" ->
                  IF c = "]" THEN ParseScan(r, "end", cur, out)
                  ELSE IF c = DQ THEN ParseScan(r, "string", <<>>, out)
                  ELSE [ok |-> FALSE, value |-> <<>>]
             [] mode = "string" ->
                  IF c = DQ THEN ParseScan(r, "after", <<>>, Append(out, cur))
                  ELSE ParseScan(r, "string", Append(cur, c), out)
             [] mode = "after" ->
                  IF c = "]" THEN ParseScan(r, "end", cur, out)
                  ELSE IF c = "," THEN ParseScan(r, "element", cur, out)
                  ELSE [ok |-> FALSE, value |-> <<>>]
             [] mode = "element" ->
                  IF c = DQ THEN ParseScan(r, "string", <<>>, out)
                  ELSE [ok |-> FALSE, value |-> <<>>]
             [] OTHER -> [ok |-> FALSE, value |-> <<>>]

Parse(text) == ParseScan(text, "open", <<>>, <<>>)

\* A localStorage entry: getItem gives null for a key never set, and the
\* stored text otherwise.
NoValue == [isNull |-> TRUE, text |-> <<>>]

Text(t) == [isNull |-> FALSE, text |-> t]

\* ------------------------------------------------------------------------
\* Bounds and inputs
\* ------------------------------------------------------------------------

\* The quantity up to which the + button is pressed.
MaxQty == 2

\* Math.random() is sampled at k / 2^SampleBits and next to 0 and 1.
SampleBits == 7

S1 == <<"s", "1">>

S2 == <<"s", "2">>

\* The photos offered to the cart, as the other pages add them: quantity 1,
\* the id "<sessionId>-<suffix>".  Both come from session s1; the second one
\* has a "-" in its suffix and carries a selected size that its size list
\* does not offer.
Photos ==
  { [id |-> S1 \o <<"-", "1">>,
     printSizes |-> << [label |-> "4x6", price |-> FromCents(300)],
                       [label |-> "5x7", price |-> FromCents(400)] >>,
     selectedSize |-> "4x6", quantity |-> 1],
    [id |-> S1 \o <<"-", "a", "-", "2">>,
     printSizes |-> << [label |-> "4x6", price |-> FromCents(29)],
                       [label |-> "5x7", price |-> FromCents(110)] >>,
     selectedSize |-> "8x10", quantity |-> 1] }

\* The values Math.random() returns here: multiples of 2^-53 in [0, 1).
Rnd(k, bits) == BMul(BFromInt(k), Pow2(FracBits - bits))

RndBelowOne == [j \in 1..FracLimbs |->
                  IF j * LimbBits <= FracBits - MantissaBits THEN 0
                  ELSE IF (j - 1) * LimbBits >= FracBits - MantissaBits THEN Base - 1
                  ELSE Base - 2 ^ ((FracBits - MantissaBits) % LimbBits)]

RandomSamples ==
  { Rnd(k, SampleBits) : k \in 0..(2 ^ SampleBits - 1) }
    \cup { Rnd(1, MantissaBits), RndBelowOne }

\* The draws of the renders that follow a cart change.
RenderDraws == { Zero, RndBelowOne }

\* What "orderedSessions" holds when the page is first opened: nothing, the
\* session of an earlier order, or a text cut short by an interrupted write.
InitialStored == { NoValue, Text(Stringify(<<S2>>)), Text(<<"[", DQ, "s">>) }

\* ------------------------------------------------------------------------
\* Cart.tsx: constants and pure functions
\* ------------------------------------------------------------------------

TAX_RATE == FromDecimal(825, 10000)

SHIPPING == FromCents(599)

\* Array.prototype.find: the first element satisfying the test, or none.
RECURSIVE FindLabel(_, _)
FindLabel(sizes, label) ==
  IF sizes = <<>> THEN [found |-> FALSE, price |-> Zero]
  ELSE IF Head(sizes).label = label
       THEN [found |-> TRUE, price |-> Head(sizes).price]
       ELSE FindLabel(Tail(sizes), label)

\* getItemPrice falling back to the first size when none is selected.
getItemPriceFirstSize(item) ==
  LET size == FindLabel(item.printSizes, item.selectedSize)
  IN  IF size.found THEN FMul(size.price, FromInt(item.quantity))
      ELSE FMul(item.printSizes[1].price, FromInt(item.quantity))

getItemPrice(item) ==
  LET size == FindLabel(item.printSizes, item.selectedSize)
  IN  IF size.found THEN FMul(size.price, FromInt(item.quantity)) ELSE Zero

\* randomOrderNumber with Math.round in the place of Math.floor.
randomOrderNumberRounded(r) ==
  Floor(FAdd(FAdd(FromInt(100000), FMul(r, FromInt(900000))), FromDecimal(5, 10)))

randomOrderNumber(r) == Floor(FAdd(FromInt(100000), FMul(r, FromInt(900000))))

\* cartItems.reduce((sum, item) => sum + getItemPrice(item), 0)
RECURSIVE Reduce(_, _)
Reduce(items, sum) ==
  IF items = <<>> THEN sum
  ELSE Reduce(Tail(items), FAdd(sum, getItemPrice(Head(items))))

Subtotal(items) == Reduce(items, Zero)

\* +(subtotal * TAX_RATE).toFixed(2)
TaxOf(sub) == FromCents(ToFixed2(FMul(sub, TAX_RATE)))

\* The shipping term charged once per item.
ShippingAddedPerItem(items) == FMul(SHIPPING, FromInt(Len(items)))

\* The shipping term charged without looking at the cart.
ShippingAddedAlways(items) == SHIPPING

\* The term (cartItems.length > 0 ? SHIPPING : 0) of the total.
ShippingAdded(items) == IF Len(items) > 0 THEN SHIPPING ELSE Zero

\* +(subtotal + tax + (cartItems.length > 0 ? SHIPPING : 0)).toFixed(2)
TotalOf(sub, tx, items) ==
  FromCents(ToFixed2(FAdd(FAdd(sub, tx), ShippingAdded(items))))

\* The Shipping line of the summary, in hundredths: SHIPPING.toFixed(2) or "0.00".
ShippingShown(items) == IF Len(items) > 0 THEN ToFixed2(SHIPPING) ELSE 0

\* The session id taken to be the whole item id.
SessionIdOfWholeId(id) == id

\* item.id.split("-")[0]
SessionIdOf(id) == Split(id, "-")[1]

\* Array.from(new Set(cartItems.map(item => item.id.split("-")[0])))
SessionIds(items) == Dedup([i \in 1..Len(items) |-> SessionIdOf(items[i].id)])

\* The merge without the Set: [...orderedSessions, ...sessionIds].
MergeSessionsNoSet(orderedSessions, sessionIds) == orderedSessions \o sessionIds

\* Array.from(new Set([...orderedSessions, ...sessionIds]))
MergeSessions(orderedSessions, sessionIds) == Dedup(orderedSessions \o sessionIds)

\* The decrement without Math.max.
DecrementedQuantityNoClamp(q) == q - 1

\* Math.max(1, item.quantity - 1)
DecrementedQuantity(q) == IF q - 1 > 1 THEN q - 1 ELSE 1

IncrementedQuantity(q) == q + 1

\* ------------------------------------------------------------------------
\* The cart store (CartContext)
\* ------------------------------------------------------------------------

IndexOf(items, id) == CHOOSE i \in 1..Len(items) : items[i].id = id

HasId(items, id) == \E i \in 1..Len(items) : items[i].id = id

addToCart(items, item) == Append(items, item)

\* updateCartItem(id, fields): the fields replace those of the item with the id.
updateQuantity(items, id, q) ==
  [i \in 1..Len(items) |->
     IF items[i].id = id THEN [items[i] EXCEPT !.quantity = q] ELSE items[i]]

updateSelectedSize(items, id, label) ==
  [i \in 1..Len(items) |->
     IF items[i].id = id THEN [items[i] EXCEPT !.selectedSize = label] ELSE items[i]]

RECURSIVE removeFromCart(_, _)
removeFromCart(items, id) ==
  IF items = <<>> THEN <<>>
  ELSE IF Head(items).id = id THEN removeFromCart(Tail(items), id)
  ELSE <<Head(items)>> \o removeFromCart(Tail(items), id)

clearCart(items) == <<>>

\* ------------------------------------------------------------------------
\* handlePlaceOrder, statement by statement.  A run is the record of the
\* cart, the storage entry, the locals, the calls made so far and whether a
\* statement has thrown; a statement after a throw does nothing.
\* ------------------------------------------------------------------------

StartRun(items, entry) ==
  [cart |-> items, store |-> entry, sessionIds |-> <<>>, orderedSessions |-> <<>>,
   log |-> <<>>, threw |-> FALSE]

\* const sessionIds = ...
DeriveSessionIds(run) ==
  IF run.threw THEN run
  ELSE [run EXCEPT !.sessionIds = SessionIds(run.cart)]

\* const stored = localStorage.getItem(...); let orderedSessions = stored ?
\* JSON.parse(stored) : [];  getItem throws when storage is denied, and
\* JSON.parse throws on a text that is no JSON.
ReadStored(run, fault) ==
  IF run.threw THEN run
  ELSE IF fault = "getItem" THEN [run EXCEPT !.threw = TRUE]
  ELSE LET withCall == [run EXCEPT !.log = Append(@, "getItem")]
       IN  IF run.store.isNull \/ run.store.text = <<>>
           THEN [withCall EXCEPT !.orderedSessions = <<>>]
           ELSE IF Parse(run.store.text).ok
                THEN [withCall EXCEPT !.orderedSessions = Parse(run.store.text).value]
                ELSE [withCall EXCEPT !.threw = TRUE]

\* orderedSessions = Array.from(new Set([...orderedSessions, ...sessionIds]))
MergeStep(run) ==
  IF run.threw THEN run
  ELSE [run EXCEPT !.orderedSessions = MergeSessions(@, run.sessionIds)]

\* localStorage.setItem(..., JSON.stringify(orderedSessions)); setItem throws
\* when the quota is exceeded.
WriteStored(run, fault) ==
  IF run.threw THEN run
  ELSE IF fault = "setItem" THEN [run EXCEPT !.threw = TRUE]
  ELSE [run EXCEPT !.store = Text(Stringify(run.orderedSessions)),
                   !.log = Append(@, "setItem")]

\* clearCart()
ClearStep(run) ==
  IF run.threw THEN run
  ELSE [run EXCEPT !.cart = clearCart(@), !.log = Append(@, "clearCart")]

\* alert(...); navigate("/")
LeaveStep(run) ==
  IF run.threw THEN run
  ELSE [run EXCEPT !.log = @ \o <<"alert", "navigate">>]

\* handlePlaceOrder with clearCart() called ahead of the storage calls.
handlePlaceOrderClearFirst(items, entry, fault) ==
  LeaveStep(WriteStored(MergeStep(
    ReadStored(ClearStep(DeriveSessionIds(StartRun(items, entry))), fault)), fault))

handlePlaceOrder(items, entry, fault) ==
  LeaveStep(ClearStep(WriteStored(MergeStep(
    ReadStored(DeriveSessionIds(StartRun(items, entry)), fault)), fault)))

\* The faults storage can raise during one run.
Faults == {"none", "getItem", "setItem"}

\* The cart view rendered for the empty cart too.
ShowsCartAlways(items) == TRUE

\* The view with the item rows and the Place Order button is rendered only
\* for a non-empty cart; the empty view offers the way back alone.
ShowsCart(items) == Len(items) # 0

\* ------------------------------------------------------------------------
\* State
\* ------------------------------------------------------------------------

VARIABLES
  cartItems,  \* the cart store's items
  deleteId,   \* the id the remove dialog asks about, or NoId
  stored,     \* the localStorage entry "orderedSessions"
  rnd,        \* the value Math.random() gave the latest render
  last        \* the latest handler run (history)

vars == <<cartItems, deleteId, stored, rnd, last>>

NoId == <<>>

NoRun == StartRun(<<>>, NoValue)

\* The history of a handler that is neither a decrement, a removal nor a
\* place-order.
Other == [op |-> "other", id |-> NoId, before |-> 0, items |-> <<>>,
          entry |-> NoValue, run |-> NoRun]

\* The values of the latest render.
subtotal == Subtotal(cartItems)

tax == TaxOf(subtotal)

total == TotalOf(subtotal, tax, cartItems)

orderNumber == randomOrderNumber(rnd)

Init ==
  /\ cartItems = <<>>
  /\ deleteId = NoId
  /\ stored \in InitialStored
  /\ rnd \in RenderDraws
  /\ last = Other

\* Another page adds a photo and the cart page is opened again.
AddToCart ==
  \E p \in Photos :
    /\ ~HasId(cartItems, p.id)
    /\ cartItems' = addToCart(cartItems, p)
    /\ deleteId' = NoId
    /\ rnd' \in RenderDraws
    /\ last' = Other
    /\ UNCHANGED stored

\* The rows' controls and the Place Order button exist while the cart view
\* is shown; no handler looks at the remove dialog.
RowsActive == ShowsCart(cartItems)

ChangeSize ==
  \E i \in 1..Len(cartItems) : \E k \in 1..Len(cartItems[i].printSizes) :
    /\ RowsActive
    /\ cartItems[i].printSizes[k].label # cartItems[i].selectedSize
    /\ cartItems' = updateSelectedSize(cartItems, cartItems[i].id,
                                       cartItems[i].printSizes[k].label)
    /\ rnd' \in RenderDraws
    /\ last' = Other
    /\ UNCHANGED <<deleteId, stored>>

Decrement ==
  \E i \in 1..Len(cartItems) :
    /\ RowsActive
    /\ cartItems' = updateQuantity(cartItems, cartItems[i].id,
                                   DecrementedQuantity(cartItems[i].quantity))
    /\ rnd' \in RenderDraws
    /\ last' = [Other EXCEPT !.op = "dec", !.id = cartItems[i].id,
                             !.before = cartItems[i].quantity]
    /\ UNCHANGED <<deleteId, stored>>

Increment ==
  \E i \in 1..Len(cartItems) :
    /\ RowsActive
    /\ cartItems[i].quantity < MaxQty
    /\ cartItems' = updateQuantity(cartItems, cartItems[i].id,
                                   IncrementedQuantity(cartItems[i].quantity))
    /\ rnd' \in RenderDraws
    /\ last' = Other
    /\ UNCHANGED <<deleteId, stored>>

AskRemove ==
  \E i \in 1..Len(cartItems) :
    /\ RowsActive
    /\ deleteId' = cartItems[i].id
    /\ rnd' \in RenderDraws
    /\ last' = Other
    /\ UNCHANGED <<cartItems, stored>>

CancelRemove ==
  /\ ShowsCart(cartItems)
  /\ deleteId # NoId
  /\ deleteId' = NoId
  /\ rnd' \in RenderDraws
  /\ last' = Other
  /\ UNCHANGED <<cartItems, stored>>

ConfirmRemove ==
  /\ ShowsCart(cartItems)
  /\ deleteId # NoId
  /\ cartItems' = removeFromCart(cartItems, deleteId)
  /\ deleteId' = NoId
  /\ rnd' \in RenderDraws
  /\ last' = [Other EXCEPT !.op = "remove", !.id = deleteId, !.items = cartItems]
  /\ UNCHANGED stored

\* A run that throws changes no state, so nothing is rendered again; a run
\* that completes leaves the page, which drops the page's own state.
PlaceOrder ==
  \E fault \in Faults :
    LET run == handlePlaceOrder(cartItems, stored, fault)
    IN  /\ RowsActive
        /\ cartItems' = run.cart
        /\ stored' = run.store
        /\ deleteId' = (IF run.threw THEN deleteId ELSE NoId)
        /\ rnd' \in (IF run.threw THEN {rnd} ELSE RenderDraws)
        /\ last' = [Other EXCEPT !.op = "place", !.items = cartItems,
                                 !.entry = stored, !.run = run]

Next ==
  \/ AddToCart
  \/ ChangeSize
  \/ Decrement
  \/ Increment
  \/ AskRemove
  \/ CancelRemove
  \/ ConfirmRemove
  \/ PlaceOrder

Spec == Init /\ [][Next]_vars

\* The order number alone: the page is rendered again and again, each time
\* with another value from the random source.
InitOrderNumber ==
  /\ cartItems = <<>>
  /\ deleteId = NoId
  /\ stored = NoValue
  /\ rnd \in RandomSamples
  /\ last = Other

Rerender ==
  /\ rnd' \in RandomSamples
  /\ UNCHANGED <<cartItems, deleteId, stored, last>>

NextOrderNumber == Rerender

SpecOrderNumber == InitOrderNumber /\ [][NextOrderNumber]_vars

\* ------------------------------------------------------------------------
\* Properties
\* ------------------------------------------------------------------------

Range(seq) == { seq[i] : i \in 1..Len(seq) }

NoDuplicates(seq) == \A i, j \in 1..Len(seq) : seq[i] = seq[j] => i = j

Count(seq, x) == Cardinality({ i \in 1..Len(seq) : seq[i] = x })

Placed == last.op = "place" /\ ~last.run.threw

PlaceFailed == last.op = "place" /\ last.run.threw

\* The entries of a size list whose label is the selected size.
MatchingSizes(item) ==
  { k \in 1..Len(item.printSizes) : item.printSizes[k].label = item.selectedSize }

\* C1: the price of every cart item is the price of the size entry whose
\* label is the selected size times the quantity (also as the row shows it,
\* in hundredths), and 0 when no entry carries that label.
C1_PriceOf ==
  \A i \in 1..Len(cartItems) :
    LET item  == cartItems[i]
        price == getItemPrice(item)
    IN  IF MatchingSizes(item) = {}
        THEN price = Zero
        ELSE \A k \in MatchingSizes(item) :
               /\ price = FMul(item.printSizes[k].price, FromInt(item.quantity))
               /\ ToFixed2(price) = ToFixed2(item.printSizes[k].price) * item.quantity

\* A cart holding an item whose selected size is not offered next to an item
\* with an offered size and quantity 2.
C1_Witness ==
  /\ \E i \in 1..Len(cartItems) : MatchingSizes(cartItems[i]) = {}
  /\ \E i \in 1..Len(cartItems) :
       MatchingSizes(cartItems[i]) # {} /\ cartItems[i].quantity = 2

\* round2(x * 0.0825) of the real number x, half away from zero, in
\* hundredths: floor(x * 8.25 + 1/2).
Round2OfTax(x) ==
  BToInt(DropLimbs(
    Norm(DivSmall(BAdd(BMulSmall(x, 1650), BMulSmall(Pow2(FracBits), 100)), 200).q),
    FracLimbs))

\* C2: tax is round2(subtotal * 0.0825) and total is round2(subtotal + tax +
\* shipping), round2 rounding the decimal value half away from zero, the
\* rounded tax being what enters the total.
C2_RoundedSummary ==
  LET sub == subtotal
      tx  == TaxOf(sub)
  IN  /\ tx = FromCents(Round2OfTax(sub))
      /\ TotalOf(sub, tx, cartItems) =
           FromCents(ToFixed2(sub) + ToFixed2(tx) + ShippingShown(cartItems))

\* C3: no quantity is ever below 1; a decrement at 1 leaves 1 and any other
\* decrement lowers the quantity by exactly 1.
C3_QuantityFloor ==
  /\ \A i \in 1..Len(cartItems) : cartItems[i].quantity >= 1
  /\ last.op = "dec" =>
       /\ HasId(cartItems, last.id)
       /\ cartItems[IndexOf(cartItems, last.id)].quantity =
            (IF last.before = 1 THEN 1 ELSE last.before - 1)

\* A decrement pressed at quantity 1.
C3_Witness ==
  /\ last.op = "dec"
  /\ last.before = 1
  /\ cartItems[IndexOf(cartItems, last.id)].quantity = 1

\* C4: a place-order that completes calls clearCart() exactly once, after
\* the merged set was written; one that fails at the read or the write of
\* the store does not call it and leaves the cart items as they were.
C4_ClearAfterWrite ==
  last.op = "place" =>
    LET log == last.run.log
    IN  /\ Count(log, "clearCart") <= 1
        /\ ~last.run.threw =>
             /\ Count(log, "clearCart") = 1
             /\ \E i, j \in 1..Len(log) :
                  i < j /\ log[i] = "setItem" /\ log[j] = "clearCart"
             /\ stored = Text(Stringify(last.run.orderedSessions))
             /\ cartItems = <<>>
        /\ last.run.threw =>
             /\ Count(log, "clearCart") = 0
             /\ cartItems = last.items
             /\ stored = last.entry

\* A place-order that failed after the read: the write threw, or the text
\* read was no JSON.
C4_Witness ==
  /\ PlaceFailed
  /\ last.run.log = <<"getItem">>
  /\ cartItems # <<>>

\* C5: placing the same cart again on the set the first placing produced
\* gives that set again, and the persisted array never holds an id twice.
C5_Idempotent ==
  /\ (~stored.isNull /\ Parse(stored.text).ok) => NoDuplicates(Parse(stored.text).value)
  /\ Placed => handlePlaceOrder(last.items, stored, "none").store = stored

\* A completed place-order of a cart with a session that was persisted before.
C5_Witness ==
  /\ Placed
  /\ ~last.entry.isNull
  /\ Range(Parse(last.entry.text).value) \cap Range(SessionIds(last.items)) # {}

\* The amounts of the Shipping line, in hundredths.
ShippingCents == 599

\* C6: shipping is 5.99 for every non-empty cart, whatever its items, and 0
\* for the empty cart, and that amount is what the total adds.
C6_Shipping ==
  LET sub == subtotal
      tx  == TaxOf(sub)
      tot == TotalOf(sub, tx, cartItems)
  IN  /\ cartItems # <<>> =>
           /\ ShippingShown(cartItems) = ShippingCents
           /\ tot = FromCents(ToFixed2(FAdd(FAdd(sub, tx), FromCents(ShippingCents))))
      /\ cartItems = <<>> =>
           /\ ShippingShown(cartItems) = 0
           /\ tot = FromCents(ToFixed2(FAdd(sub, tx)))

\* A cart of two items, one of them with quantity 2.
C6_Witness ==
  /\ Len(cartItems) = 2
  /\ \E i \in 1..Len(cartItems) : cartItems[i].quantity = 2

\* C7: the summary of the empty cart is all zero, also after the last item
\* was removed and after an order was placed.
C7_EmptySummary ==
  cartItems = <<>> =>
    /\ subtotal = Zero
    /\ tax = Zero
    /\ ShippingShown(cartItems) = 0
    /\ total = Zero

\* The cart emptied by removing its last item.
C7_Witness == cartItems = <<>> /\ last.op = "remove" /\ Len(last.items) = 1

\* C8: the order number is an integer from 100000 to 999999 for every value
\* of the random source.
C8_OrderNumberRange == orderNumber \in 100000..999999

\* The largest value of the random source gives the largest order number.
C8_Witness == rnd = RndBelowOne /\ orderNumber = 999999

\* The part of an id before its first "-" (the whole id when it has none).
PrefixBeforeDash(id) ==
  CHOOSE p \in { SubSeq(id, 1, n) : n \in 0..Len(id) } :
    /\ \A i \in 1..Len(p) : p[i] # "-"
    /\ Len(p) = Len(id) \/ id[Len(p) + 1] = "-"

PersistedSet(entry) ==
  IF entry.isNull \/ entry.text = <<>> THEN {} ELSE Range(Parse(entry.text).value)

\* C9: a completed place-order leaves the persisted set equal to the set
\* persisted before united with the id prefixes before the first "-" of all
\* cart items.
C9_MergedSet ==
  Placed =>
    /\ Parse(stored.text).ok
    /\ PersistedSet(stored) =
         PersistedSet(last.entry)
           \cup { PrefixBeforeDash(last.items[i].id) : i \in 1..Len(last.items) }

\* A completed place-order of a cart holding an item whose suffix has a "-",
\* with another session persisted before.
C9_Witness ==
  /\ Placed
  /\ \E i \in 1..Len(last.items) : Len(Split(last.items[i].id, "-")) > 2
  /\ PersistedSet(last.entry) \ Range(SessionIds(last.items)) # {}

\* The store was only ever written from a cart with items.
WrittenFromItems ==
  (last.op = "place" /\ Count(last.run.log, "setItem") > 0) => last.items # <<>>

\* C10 as stated: the persisted set is never written from an empty cart, and
\* no place-order directly follows a place-order.
C10_Original ==
  /\ []WrittenFromItems
  /\ [][last.op = "place" => last'.op # "place"]_vars

\* C10: the persisted set is never written from an empty cart, and no
\* place-order directly follows a place-order that completed.
C10_PlaceNeedsItems ==
  /\ []WrittenFromItems
  /\ [][Placed => last'.op # "place"]_vars

\* A completed place-order: the cart is empty and the cart view is gone.
C10_Witness == Placed /\ ~ShowsCart(cartItems) /\ ~ENABLED PlaceOrder
====
